---- MODULE Spec2Model ----
(***************************************************************************)
(* Model of the api-gateway service (src/services/gateway/app.py): the     *)
(* /ask pipeline, the process-wide IAM token cache and the chat_history    *)
(* table, run by concurrent worker threads.                                *)
(***************************************************************************)
EXTENDS Integers, Sequences, FiniteSets, TLC

(***************************************************************************)
(* Bounds of the model.                                                    *)
(***************************************************************************)
\* number of times the wall clock advances in one behaviour
MaxTicks == 1

\* worker threads of the server; each serves one /ask request, or makes one
\* call of _get_iam_token when the function is run on its own
Workers == {1, 2, 3}

\* the threads that serve the concurrent /ask requests
Serving == {1, 2}

\* number of rows written to the table when the store functions are called
\* on their own, and number of times the clock advances between such calls
MaxRows == 3
MaxElapses == 2

\* number of POST /reindex requests the retrieval service gets
MaxPosts == 3

\* number of messages the standalone bot gets
MaxMessages == 2

(***************************************************************************)
(* Texts.  A text is a sequence of runs [ch, n]: n >= 1 copies of the      *)
(* character ch, so that texts around MAX_QUESTION_CHARS stay small.       *)
(***************************************************************************)
Run(ch, n) == [ch |-> ch, n |-> n]

Empty == <<>>

RECURSIVE TextLen(_)
TextLen(t) == IF t = <<>> THEN 0 ELSE Head(t).n + TextLen(Tail(t))

RECURSIVE LStrip(_)
LStrip(t) ==
    IF t = <<>> THEN <<>>
    ELSE IF Head(t).ch = " " THEN LStrip(Tail(t)) ELSE t

RECURSIVE RStrip(_)
RStrip(t) ==
    IF t = <<>> THEN <<>>
    ELSE IF t[Len(t)].ch = " " THEN RStrip(SubSeq(t, 1, Len(t) - 1)) ELSE t

\* str.strip()
Strip(t) == RStrip(LStrip(t))

\* t[:k]
RECURSIVE Take(_, _)
Take(t, k) ==
    IF t = <<>> \/ k <= 0 THEN <<>>
    ELSE IF Head(t).n <= k
         THEN <<Head(t)>> \o Take(Tail(t), k - Head(t).n)
         ELSE <<Run(Head(t).ch, k)>>

(***************************************************************************)
(* Program constants.                                                      *)
(***************************************************************************)
MAX_QUESTION_CHARS == 8000
HISTORY_MAX_TURNS == 8
HISTORY_MAX_DAYS == 7
SecondsPerDay == 86400
\* lifetime recorded for a fresh token and the margin of the validity test
IAM_TTL == 3500
IAM_MARGIN == 60

\* Retry(total = 2, status_forcelist = (429, 500, 502, 503, 504))
RetryTotal == 2
status_forcelist == {429, 500, 502, 503, 504}
\* the statuses Retry retries when the response has a Retry-After header
\* (respect_retry_after_header is left at its default, True)
RETRY_AFTER_STATUS_CODES == {413, 429, 503}

\* blocked_ans, the fixed answer of a blocked request
blocked_ans == <<Run("B", 1)>>
\* base_system, the static instruction segment
base_system == <<Run("S", 1)>>
\* the prefix of the context segment
ContextPrefix == <<Run("K", 1)>>

(***************************************************************************)
(* Inputs.                                                                 *)
(***************************************************************************)
\* user_id values of requests ("" is refused by the request schema)
UserIds == {"", "u1", "u2"}

\* question values of requests
Questions ==
    { <<>>,
      <<Run(" ", 2)>>,
      <<Run(" ", 1), Run("a", 1), Run(" ", 1)>>,
      <<Run("a", MAX_QUESTION_CHARS)>>,
      <<Run("a", MAX_QUESTION_CHARS + 1)>>,
      <<Run(" ", 1), Run("a", MAX_QUESTION_CHARS + 1), Run(" ", 1)>> }

\* amounts by which the wall clock advances between two requests, in
\* seconds: a moment, the validity of a fresh token, the retention window
\* and a second
Jumps == {1, IAM_TTL - IAM_MARGIN, HISTORY_MAX_DAYS * SecondsPerDay + 1}

\* tokens the Issuer hands out
Tokens == {<<Run("t", 1)>>, <<Run("u", 1)>>}

\* texts the completion endpoint puts in the text field
AnswerTexts == {<<>>, <<Run(" ", 1)>>, <<Run("x", 1)>>}

\* texts the retriever puts in the context field
ContextTexts == {<<>>, <<Run("c", 1)>>}

(***************************************************************************)
(* The HTTP session: one post() makes up to RetryTotal + 1 attempts.  An   *)
(* attempt is answered by a response (status, body) or fails at the        *)
(* network level.                                                          *)
(***************************************************************************)
\* a response body: its shape and, for a well-formed body, the field's value
Body(shape, val) == [shape |-> shape, val |-> val]

NoBody == Body("none", <<>>)

NetErr == [kind |-> "neterr", status |-> 0, body |-> NoBody, retry_after |-> FALSE]

Resp(status, body) ==
    [kind |-> "resp", status |-> status, body |-> body, retry_after |-> FALSE]

\* a response with a Retry-After header
RespRetryAfter(status) ==
    [kind |-> "resp", status |-> status, body |-> NoBody, retry_after |-> TRUE]

\* an attempt after which the Retry policy asks for another attempt
Transient(rep) ==
    \/ rep.kind = "neterr"
    \/ rep.kind = "resp" /\ rep.status \in status_forcelist
    \/ /\ rep.kind = "resp" /\ rep.retry_after
       /\ rep.status \in RETRY_AFTER_STATUS_CODES

\* the replies an endpoint with the given 200-bodies can give to one attempt
Replies(bodies) ==
    {NetErr} \cup {Resp(s, NoBody) : s \in {400, 429, 500, 501}}
             \cup {RespRetryAfter(413)}
             \cup {Resp(200, b) : b \in bodies}

\* the reply sequences one post() can consume: every reply but the last is
\* transient, and a transient last reply means the retries are exhausted
ReplySeqs(bodies) ==
    LET R == Replies(bodies)
        T == {rep \in R : Transient(rep)}
        F == {rep \in R : ~Transient(rep)}
        Pre(k) == [1..k -> T]
    IN  UNION { { p \o <<l>> : p \in Pre(k), l \in F } : k \in 0..RetryTotal }
        \cup Pre(RetryTotal + 1)

\* _session.post(...): the response object, or the exception it raises
SessionPost(rs) ==
    LET last == rs[Len(rs)]
    IN  IF Transient(last)
        THEN [raised |-> TRUE,
              exc |-> IF last.kind = "neterr" THEN "ConnectionError" ELSE "RetryError",
              status |-> 0, body |-> NoBody, attempts |-> Len(rs)]
        ELSE [raised |-> FALSE, exc |-> "none",
              status |-> last.status, body |-> last.body, attempts |-> Len(rs)]

\* what a post() to an endpoint with the given 200-bodies can come to: the
\* results of SessionPost over ReplySeqs(bodies), each computed once, from the
\* sequence that fails RetryTotal + 1 times the same way or from a sequence
\* that gets its final reply after k - 1 failed connections
PostResults(bodies) ==
    LET R == Replies(bodies)
        T == {rep \in R : Transient(rep)}
        F == {rep \in R : ~Transient(rep)}
    IN  {SessionPost([i \in 1..(RetryTotal + 1) |-> l]) : l \in T}
        \cup {SessionPost([i \in 1..k |-> IF i = k THEN l ELSE NetErr]) :
                 l \in F, k \in 1..(RetryTotal + 1)}

\* r.raise_for_status() raises HTTPError
BadStatus(r) == r.status >= 400

\* 200-bodies of security-svc /detect: not JSON, JSON that is no object, an
\* object without is_injection, is_injection true / false
DetectorBodies ==
    {Body(s, <<>>) : s \in {"notjson", "nonobject", "nofield", "true", "false"}}

\* 200-bodies of moderation-svc /moderate
ModeratorBodies ==
    {Body(s, <<>>) : s \in {"notjson", "nonobject", "nofield", "true", "false"}}

\* 200-bodies of rag-svc /context
RagBodies ==
    {Body(s, <<>>) : s \in {"notjson", "nonobject", "nofield"}}
    \cup {Body("context", c) : c \in ContextTexts}

\* 200-bodies of the IAM token endpoint
IamBodies ==
    {Body(s, <<>>) : s \in {"notjson", "nonobject", "nofield"}}
    \cup {Body("token", t) : t \in Tokens}

\* 200-bodies of the completion endpoint: not JSON, a JSON list, no
\* result.alternatives, a text that is no string, a text
LlmBodies ==
    {Body(s, <<>>) : s \in {"notjson", "nonobject", "noalt", "nontext"}}
    \cup {Body("text", a) : a \in AnswerTexts}

\* what the post() to each endpoint can come to
DetectorResults == PostResults(DetectorBodies)
ModeratorResults == PostResults(ModeratorBodies)
RagResults == PostResults(RagBodies)
IamResults == PostResults(IamBodies)
LlmResults == PostResults(LlmBodies)

(***************************************************************************)
(* The chat_history table: rows [id, user_id, role, content, ts] in        *)
(* insertion order.                                                        *)
(***************************************************************************)
Row(id, u, role, content, ts) ==
    [id |-> id, user_id |-> u, role |-> role, content |-> content, ts |-> ts]

\* save_message without the DELETE
SaveMessageNoPrune(rows, id, u, role, content, t) ==
    Append(rows, Row(id, u, role, content, t))

\* save_message with the comparison of the DELETE turned round
SaveMessageWrongCutoff(rows, id, u, role, content, t) ==
    LET cutoff == t - HISTORY_MAX_DAYS * SecondsPerDay
        keep(x) == ~(x.ts > cutoff)
    IN  SelectSeq(Append(rows, Row(id, u, role, content, t)), keep)

\* save_message whose transaction loses the INSERT
SaveMessagePruneOnly(rows, id, u, role, content, t) ==
    LET cutoff == t - HISTORY_MAX_DAYS * SecondsPerDay
        keep(x) == ~(x.ts < cutoff)
    IN  SelectSeq(rows, keep)

\* save_message: INSERT and DELETE in one transaction
SaveMessage(rows, id, u, role, content, t) ==
    LET cutoff == t - HISTORY_MAX_DAYS * SecondsPerDay
        keep(x) == ~(x.ts < cutoff)
    IN  SelectSeq(Append(rows, Row(id, u, role, content, t)), keep)

\* ORDER BY ts DESC (rows of equal ts in descending rowid, the order of the
\* reverse scan of idx_hist_user_ts)
RECURSIVE OrderByTsDesc(_)
OrderByTsDesc(S) ==
    IF S = {} THEN <<>>
    ELSE LET m == CHOOSE x \in S :
                    \A o \in S : o.ts < x.ts \/ (o.ts = x.ts /\ o.id <= x.id)
         IN  <<m>> \o OrderByTsDesc(S \ {m})

Reversed(s) == [i \in 1..Len(s) |-> s[Len(s) + 1 - i]]

Min(a, b) == IF a < b THEN a ELSE b

\* ORDER BY ts ASC in place of DESC
RECURSIVE OrderByTsAsc(_)
OrderByTsAsc(S) ==
    IF S = {} THEN <<>>
    ELSE LET m == CHOOSE x \in S :
                    \A o \in S : x.ts < o.ts \/ (o.ts = x.ts /\ x.id <= o.id)
         IN  <<m>> \o OrderByTsAsc(S \ {m})

\* fetch_last_turns that reads the oldest rows
FetchLastTurnsOldest(rows, u, lim) ==
    LET mine == {rows[i] : i \in {j \in 1..Len(rows) : rows[j].user_id = u}}
        asc == OrderByTsAsc(mine)
    IN  SubSeq(asc, 1, Min(lim, Len(asc)))

\* fetch_last_turns without reversed()
FetchLastTurnsNoReverse(rows, u, lim) ==
    LET mine == {rows[i] : i \in {j \in 1..Len(rows) : rows[j].user_id = u}}
        desc == OrderByTsDesc(mine)
    IN  SubSeq(desc, 1, Min(lim, Len(desc)))

\* fetch_last_turns
FetchLastTurns(rows, u, lim) ==
    LET mine == {rows[i] : i \in {j \in 1..Len(rows) : rows[j].user_id = u}}
        desc == OrderByTsDesc(mine)
    IN  Reversed(SubSeq(desc, 1, Min(lim, Len(desc))))

\* delete_history that spares the answers
DeleteRowsOfRole(rows, u) ==
    SelectSeq(rows, LAMBDA x : ~(x.user_id = u /\ x.role = "user"))

\* DELETE FROM chat_history WHERE user_id = :u
DeleteRows(rows, u) == SelectSeq(rows, LAMBDA x : x.user_id # u)

(***************************************************************************)
(* The prompt of the completion call.                                      *)
(***************************************************************************)
Msg(role, txt) == [role |-> role, text |-> txt]

RECURSIVE TurnMsgs(_)
TurnMsgs(ts) ==
    IF ts = <<>> THEN <<>>
    ELSE <<Msg(IF Head(ts).role = "user" THEN "user" ELSE "assistant",
               Head(ts).content)>> \o TurnMsgs(Tail(ts))

\* turns[-(HISTORY_MAX_TURNS * 2):]
LastN(s, n) == IF Len(s) <= n THEN s ELSE SubSeq(s, Len(s) - n + 1, Len(s))

\* the messages list built by ask
BuildMessages(ctx, turns, q) ==
    <<Msg("system", base_system)>>
    \o (IF ctx # Empty THEN <<Msg("system", ContextPrefix \o ctx)>> ELSE <<>>)
    \o TurnMsgs(LastN(turns, HISTORY_MAX_TURNS * 2))
    \o <<Msg("user", q)>>

(***************************************************************************)
(* What ask and its helpers make of the result r of a post().              *)
(***************************************************************************)
\* the post gave no JSON: it raised, the status is an error, the body does
\* not parse
CallFailed(r) == r.raised \/ BadStatus(r) \/ r.body.shape = "notjson"

\* _security_blocked that lets the request pass when the call fails
security_blocked_failopen(r) ==
    IF CallFailed(r) THEN "False"
    ELSE IF r.body.shape = "nonobject" THEN "AttributeError"
    ELSE IF r.body.shape = "true" THEN "True"
    ELSE "False"

\* _security_blocked: "True" or "False", the value returned (True from the
\* except branch, False for a missing is_injection), or the exception that
\* the except branch does not name
security_blocked(r) ==
    IF CallFailed(r) THEN "True"
    ELSE IF r.body.shape = "nonobject" THEN "AttributeError"
    ELSE IF r.body.shape = "true" THEN "True"
    ELSE "False"

\* _moderation_blocked that does not read the verdict
moderation_blocked_ignore(r) ==
    IF CallFailed(r) THEN "True"
    ELSE IF r.body.shape = "nonobject" THEN "AttributeError"
    ELSE "False"

\* _moderation_blocked
moderation_blocked(r) ==
    IF CallFailed(r) THEN "True"
    ELSE IF r.body.shape = "nonobject" THEN "AttributeError"
    ELSE IF r.body.shape = "true" THEN "True"
    ELSE "False"

\* _rag_context that lets the failure of the call through
rag_context_strict(r) ==
    IF CallFailed(r) \/ r.body.shape = "nonobject"
    THEN [exc |-> "AttributeError", ctx |-> Empty]
    ELSE IF r.body.shape = "nofield" THEN [exc |-> "", ctx |-> Empty]
    ELSE [exc |-> "", ctx |-> r.body.val]

\* _rag_context: the context, "" from the except branch and for a missing or
\* null context, or the exception that the except branch does not name
rag_context(r) ==
    IF CallFailed(r) THEN [exc |-> "", ctx |-> Empty]
    ELSE IF r.body.shape = "nonobject" THEN [exc |-> "AttributeError", ctx |-> Empty]
    ELSE IF r.body.shape = "nofield" THEN [exc |-> "", ctx |-> Empty]
    ELSE [exc |-> "", ctx |-> r.body.val]

\* What the refresh makes of the post to IAM_URL: the exception that ends it,
\* or "" with the token there.  The handler of RequestException, ValueError
\* and KeyError reads r, which is unbound when post itself raised.
IamFailure(r) ==
    IF r.raised THEN "UnboundLocalError"
    ELSE IF BadStatus(r) THEN "HTTPError"
    ELSE IF r.body.shape = "notjson" THEN "ValueError"
    ELSE IF r.body.shape = "nonobject" THEN "AttributeError"
    ELSE IF r.body.shape = "nofield" \/ r.body.val = Empty THEN "KeyError"
    ELSE ""

\* the reading of the completion answer without the test of ans.strip()
LlmFailureLax(r) ==
    IF r.raised THEN "UnboundLocalError"
    ELSE IF BadStatus(r) THEN "HTTPError"
    ELSE IF r.body.shape = "notjson" THEN "ValueError"
    ELSE IF r.body.shape = "nonobject" THEN "AttributeError"
    ELSE IF r.body.shape = "noalt" THEN "KeyError: alternatives missing"
    ELSE IF r.body.shape = "nontext" THEN "KeyError: empty text"
    ELSE ""

\* What ask makes of the post to LLM_URL: the exception that ends the try
\* block, or "" with the answer there.  The except branch reads r as well.
LlmFailure(r) ==
    IF r.raised THEN "UnboundLocalError"
    ELSE IF BadStatus(r) THEN "HTTPError"
    ELSE IF r.body.shape = "notjson" THEN "ValueError"
    ELSE IF r.body.shape = "nonobject" THEN "AttributeError"
    ELSE IF r.body.shape = "noalt" THEN "KeyError: alternatives missing"
    ELSE IF r.body.shape = "nontext" \/ Strip(r.body.val) = Empty
    THEN "KeyError: empty text"
    ELSE ""

\* the detail of HTTPException(502, f"LLM error: {e}")
LlmDetail(r) ==
    IF BadStatus(r) THEN IF r.status = 400 THEN "LLM error: 400" ELSE "LLM error: 501"
    ELSE IF r.body.shape = "notjson" THEN "LLM error: invalid json"
    ELSE IF r.body.shape = "noalt" THEN "LLM error: alternatives missing"
    ELSE "LLM error: empty text"

(***************************************************************************)
(* State.                                                                  *)
(***************************************************************************)
VARIABLES
    clock,          \* the wall clock, in seconds
    ticks,          \* how often the clock has advanced
    chat_history,   \* the rows of the table
    nextId,         \* the next AUTOINCREMENT id
    IAM_TOKEN,      \* _IAM_TOKEN (Empty for None)
    IAM_EXP,        \* _IAM_EXP
    env_ok,         \* _env_ok(): the four environment variables are set
    key_ok,         \* PRIVATE_KEY is a key jwt.encode can sign with
    pc,             \* where each worker is in ask
    loc,            \* the local variables of each worker's ask
    resp,           \* the response each worker has sent
    ops,            \* the record of what each worker's request has done
    inserted,       \* the rows each worker's request has inserted
    grp,            \* the burst of concurrent refreshes a worker's call is in
    exchanges,      \* per burst, the number of posts to the Issuer
    tokOut,         \* what _get_iam_token gave each worker's ask
    full,           \* the record of a request is kept in full
    last,           \* the last call of a store function, made on its own
    committed,      \* per user, when save_message last committed (-1: never)
    by,             \* the workers whose refresh wrote _IAM_TOKEN and _IAM_EXP
    gone,           \* per worker, the length of its record when the client
                    \* of its request went away (0: the client is there)
    rag,            \* the retrieval service (src/services/rag/app.py)
    bot,            \* the Telegram adapter (src/services/telegram-bot/app.py)
    scam            \* the standalone bot (src/scambot.py, src/moderator.py)

vars == <<clock, ticks, chat_history, nextId, IAM_TOKEN, IAM_EXP, env_ok,
          key_ok, pc, loc, resp, ops, inserted, grp, exchanges, tokOut,
          full, last, committed, by, gone, rag, bot, scam>>

NoResponse == [status |-> 0, answer |-> Empty, detail |-> ""]

NoLocals ==
    [user_id |-> "", q |-> Empty, ctx |-> Empty, turns |-> <<>>,
     messages |-> <<>>, now |-> 0, new_token |-> Empty, ans |-> Empty]

NoOutcome == [state |-> "none", token |-> Empty, status |-> 0, detail |-> ""]

NoCall == [op |-> "none", user_id |-> "", lim |-> 0, before |-> <<>>, result |-> <<>>]

\* the clients of the retrieval service
RagClients == {1, 2}

\* a client of the retrieval service with no request under way
NoReq == [pc |-> "idle", saw |-> FALSE, status |-> 0, detail |-> "", started |-> FALSE]

\* the retrieval service before its lifespan has run: _vs = None (0),
\* _building = False, _build_lock free (0), no build thread
RagBoot(mode) ==
    [mode |-> mode, up |-> "boot", building |-> FALSE, lock |-> 0, vs |-> 0,
     builds |-> <<>>, req |-> [c \in RagClients |-> NoReq], posts |-> 0]

\* the Telegram adapter before a message has come
BotWait ==
    [pc |-> "wait", q |-> Empty, attempt |-> 0, posts |-> 0, oks |-> 0,
     got |-> FALSE, null |-> FALSE, ans |-> Empty, left |-> <<>>, sent |-> <<>>,
     raised |-> FALSE]

\* the standalone bot before main has run: iam_token = None (0),
\* token_expires = 0, the moderator not initialised.  det, mod, verdict and
\* asked record what the handling of the current message has done so far.
ScamBoot(folder) ==
    [pc |-> "boot", folder |-> folder, now |-> 0, iam_token |-> 0,
     token_expires |-> 0, inited |-> FALSE, msgs |-> 0,
     det |-> "none", mod |-> "none", verdict |-> "none", asked |-> FALSE,
     reply |-> "none"]

\* the other services when they are not run
NoRag == [RagBoot("faiss") EXCEPT !.up = "off"]
NoBot == [BotWait EXCEPT !.pc = "off"]
NoScam == [ScamBoot(TRUE) EXCEPT !.pc = "off"]

OthersOff == rag = NoRag /\ bot = NoBot /\ scam = NoScam

\* the state of a fresh process with an empty table
Start ==
    /\ clock = 0
    /\ ticks = 0
    /\ chat_history = <<>>
    /\ nextId = 1
    /\ IAM_TOKEN = Empty
    /\ IAM_EXP = 0
    /\ env_ok \in BOOLEAN
    /\ key_ok \in (IF env_ok THEN BOOLEAN ELSE {FALSE})
    /\ loc = [w \in Workers |-> NoLocals]
    /\ resp = [w \in Workers |-> NoResponse]
    /\ ops = [w \in Workers |-> <<>>]
    /\ inserted = [w \in Workers |-> <<>>]
    /\ grp = [w \in Workers |-> 0]
    /\ exchanges = <<>>
    /\ tokOut = [w \in Workers |-> NoOutcome]
    /\ last = NoCall
    /\ committed = [u \in UserIds |-> -1]
    /\ by = [token |-> 0, exp |-> 0]
    /\ gone = [w \in Workers |-> 0]

Init ==
    /\ Start
    /\ OthersOff
    /\ pc = [w \in Workers |-> IF w \in Serving THEN "idle" ELSE "off"]
    /\ full = FALSE

\* the configuration of the gateway, and the other services, whose state no
\* step of the gateway touches
Config == <<env_ok, key_ok, rag, bot, scam>>
Aside == <<full, last, committed, gone>>
Cache == <<IAM_TOKEN, IAM_EXP, by>>
Bursts == <<grp, exchanges, tokOut>>
Table == <<chat_history, nextId, inserted>>
Time == <<clock, ticks>>

(***************************************************************************)
(* The record of a request: one entry per operation, with what the         *)
(* collaborator did when the operation is a call.                          *)
(***************************************************************************)
Op(o) == [op |-> o, out |-> "", seen |-> <<>>, arg |-> Empty]

Call(o, out) == [op |-> o, out |-> out, seen |-> <<>>, arg |-> Empty]

\* the statuses of the replies a post() has consumed (0: no reply came)
Statuses(rs) == [i \in 1..Len(rs) |-> rs[i].status]

\* the entry of a call whose post() consumed the replies rs
Sent(o, out, rs) ==
    [op |-> o, out |-> out, seen |-> Statuses(rs), arg |-> Empty]

\* the entry e with the text the operation was given, for the record kept in
\* full
About(e, txt) == [e EXCEPT !.arg = IF full THEN txt ELSE Empty]

\* the reply sequences that bring a post() to the result r, for the record
\* kept in full
Consumed(bodies, r) ==
    IF full THEN {rs \in ReplySeqs(bodies) : SessionPost(rs) = r} ELSE {<<>>}

\* what the collaborator did: "failed" (no JSON came back), "nonobject",
\* "missing" (the field is not there, or holds nothing), "positive",
\* "negative", "ok"
Outcome(r) ==
    IF CallFailed(r) THEN "failed"
    ELSE IF r.body.shape = "nonobject" THEN "nonobject"
    ELSE IF r.body.shape \in {"nofield", "noalt", "nontext"} THEN "missing"
    ELSE IF r.body.shape = "true" THEN "positive"
    ELSE IF r.body.shape = "false" THEN "negative"
    ELSE IF Strip(r.body.val) = Empty THEN "missing"
    ELSE "ok"

\* the same for a screening call and for the retriever, whose record, unless
\* it is kept in full, only tells that the collaborator answered when the
\* answer is no positive verdict
Coarse(out) ==
    IF ~full /\ out \in {"missing", "negative", "ok"} THEN "answered" ELSE out

\* the kind of question a request carries
InputKind(question) ==
    IF question = Empty THEN "empty"
    ELSE IF Strip(question) = Empty THEN "blank"
    ELSE "text"

\* the rows of after that are not in before
NewRows(before, after) ==
    SelectSeq(after, LAMBDA x : \A i \in 1..Len(before) : before[i].id # x.id)

\* the request of worker w ends with an error response; ask's locals are gone
Raise(w, status, detail, op) ==
    /\ resp' = [resp EXCEPT ![w] = [status |-> status, answer |-> Empty,
                                    detail |-> detail]]
    /\ ops' = [ops EXCEPT ![w] = @ \o op \o <<Op("respond")>>]
    /\ pc' = [pc EXCEPT ![w] = "done"]
    /\ loc' = [loc EXCEPT ![w] = [NoLocals EXCEPT !.user_id = loc[w].user_id]]

\* the request of user u is refused before worker w has any locals
Reject(w, u, status, detail, op) ==
    /\ resp' = [resp EXCEPT ![w] = [status |-> status, answer |-> Empty,
                                    detail |-> detail]]
    /\ ops' = [ops EXCEPT ![w] = @ \o op \o <<Op("respond")>>]
    /\ pc' = [pc EXCEPT ![w] = "done"]
    /\ loc' = [loc EXCEPT ![w] = [NoLocals EXCEPT !.user_id = u]]

\* the request of worker w ends with AskResp(answer = a)
Return(w, a, op) ==
    /\ resp' = [resp EXCEPT ![w] = [status |-> 200, answer |-> a, detail |-> ""]]
    /\ ops' = [ops EXCEPT ![w] = @ \o op \o <<Op("respond")>>]
    /\ pc' = [pc EXCEPT ![w] = "done"]
    /\ loc' = [loc EXCEPT ![w] = [NoLocals EXCEPT !.user_id = loc[w].user_id]]

\* worker w goes on to the next step with the locals l
Goto(w, label, op, l) ==
    /\ pc' = [pc EXCEPT ![w] = label]
    /\ ops' = [ops EXCEPT ![w] = @ \o op]
    /\ loc' = [loc EXCEPT ![w] = l]
    /\ UNCHANGED resp

\* The steps that touch nothing shared (the calls to the collaborators, and
\* leaving the handler once the response is sent) commute with every step of
\* the other workers and of the clock, so the model runs such a step before
\* anything else moves.
LocalSteps == {"security", "moderation", "rag", "iam_refresh", "llm", "done"}

Quiet(w) == \A v \in Workers \ {w} : pc[v] \notin LocalSteps

(***************************************************************************)
(* POST /ask.                                                              *)
(***************************************************************************)
\* ask without the cut to MAX_QUESTION_CHARS
AskUncut(w) ==
    /\ pc[w] = "idle"
    /\ Quiet(w)
    /\ \E u \in UserIds, question \in Questions :
         LET q0 == Strip(question)
             q == q0
             got == About(Call("ask", InputKind(question)), question)
         IN  IF TextLen(question) < 1 \/ u = ""
             THEN Reject(w, u, 422, "validation error", <<got>>)
             ELSE IF q0 = Empty
             THEN Reject(w, u, 400, "empty question", <<got, Op("validate")>>)
             ELSE Goto(w, "persist_user", <<got, Op("validate"), Op("truncate")>>,
                       [loc[w] EXCEPT !.user_id = u, !.q = q])
    /\ UNCHANGED <<Time, Table, Cache, Config, Aside, Bursts>>

\* the request schema AskReq, q = question.strip(), the empty test and the cut
\* to MAX_QUESTION_CHARS
Ask(w) ==
    /\ pc[w] = "idle"
    /\ Quiet(w)
    /\ \E u \in UserIds, question \in Questions :
         LET q0 == Strip(question)
             q == IF TextLen(q0) > MAX_QUESTION_CHARS
                  THEN Take(q0, MAX_QUESTION_CHARS) ELSE q0
             got == About(Call("ask", InputKind(question)), question)
         IN  IF TextLen(question) < 1 \/ u = ""
             THEN Reject(w, u, 422, "validation error", <<got>>)
             ELSE IF q0 = Empty
             THEN Reject(w, u, 400, "empty question", <<got, Op("validate")>>)
             ELSE Goto(w, "persist_user", <<got, Op("validate"), Op("truncate")>>,
                       [loc[w] EXCEPT !.user_id = u, !.q = q])
    /\ UNCHANGED <<Time, Table, Cache, Config, Aside, Bursts>>

\* ask without the screening: from the user turn straight to the retriever
PersistUserUnscreened(w) ==
    /\ pc[w] = "persist_user"
    /\ Quiet(w)
    /\ chat_history' = SaveMessage(chat_history, nextId, loc[w].user_id, "user",
                                   loc[w].q, clock)
    /\ inserted' = [inserted EXCEPT ![w] = @ \o NewRows(chat_history, chat_history')]
    /\ nextId' = nextId + 1
    /\ Goto(w, "rag", <<Op("save_user")>>, loc[w])
    /\ UNCHANGED <<Time, Cache, Config, Aside, Bursts>>

\* save_message(req.user_id, req.chat_id, "user", q)
PersistUser(w) ==
    /\ pc[w] = "persist_user"
    /\ Quiet(w)
    /\ chat_history' = SaveMessage(chat_history, nextId, loc[w].user_id, "user",
                                   loc[w].q, clock)
    /\ inserted' = [inserted EXCEPT ![w] = @ \o NewRows(chat_history, chat_history')]
    /\ nextId' = nextId + 1
    /\ Goto(w, "security", <<Op("save_user")>>, loc[w])
    /\ UNCHANGED <<Time, Cache, Config, Aside, Bursts>>

\* _security_blocked(q, request_id), the left operand of the or
SecurityCheck(w) ==
    /\ pc[w] = "security"
    /\ Quiet(w)
    /\ \E r \in DetectorResults :
         LET v == security_blocked(r)
             op == <<About(Call("detect", Coarse(Outcome(r))), loc[w].q)>>
         IN  IF v = "AttributeError"
             THEN Raise(w, 500, "Internal Server Error", op)
             ELSE IF v = "True"
             THEN Goto(w, "persist_blocked", op, loc[w])
             ELSE Goto(w, "moderation", op, loc[w])
    /\ UNCHANGED <<Time, Table, Cache, Config, Aside, Bursts>>

\* _moderation_blocked(q, request_id), the right operand of the or
ModerationCheck(w) ==
    /\ pc[w] = "moderation"
    /\ Quiet(w)
    /\ \E r \in ModeratorResults :
         LET v == moderation_blocked(r)
             op == <<About(Call("moderate", Coarse(Outcome(r))), loc[w].q)>>
         IN  IF v = "AttributeError"
             THEN Raise(w, 500, "Internal Server Error", op)
             ELSE IF v = "True"
             THEN Goto(w, "persist_blocked", op, loc[w])
             ELSE Goto(w, "rag", op, loc[w])
    /\ UNCHANGED <<Time, Table, Cache, Config, Aside, Bursts>>

\* the blocked branch with an answer that tells which check stopped the request
PersistBlockedTelling(w) ==
    /\ pc[w] = "persist_blocked"
    /\ Quiet(w)
    /\ LET a == IF ops[w][Len(ops[w])].op = "detect"
                THEN blocked_ans ELSE blocked_ans \o <<Run("m", 1)>>
       IN  /\ chat_history' = SaveMessage(chat_history, nextId, loc[w].user_id,
                                          "assistant", a, clock)
           /\ Return(w, a, <<Op("save_blocked")>>)
    /\ inserted' = [inserted EXCEPT ![w] = @ \o NewRows(chat_history, chat_history')]
    /\ nextId' = nextId + 1
    /\ UNCHANGED <<Time, Cache, Config, Aside, Bursts>>

\* save_message(..., "assistant", blocked_ans); return AskResp(answer=blocked_ans)
PersistBlocked(w) ==
    /\ pc[w] = "persist_blocked"
    /\ Quiet(w)
    /\ chat_history' = SaveMessage(chat_history, nextId, loc[w].user_id,
                                   "assistant", blocked_ans, clock)
    /\ inserted' = [inserted EXCEPT ![w] = @ \o NewRows(chat_history, chat_history')]
    /\ nextId' = nextId + 1
    /\ Return(w, blocked_ans, <<Op("save_blocked")>>)
    /\ UNCHANGED <<Time, Cache, Config, Aside, Bursts>>

\* ctx = _rag_context(q, request_id)
Retrieve(w) ==
    /\ pc[w] = "rag"
    /\ Quiet(w)
    /\ \E r \in RagResults :
         LET c == rag_context(r)
             op == <<About(Call("rag", Coarse(Outcome(r))), loc[w].q)>>
         IN  IF c.exc # ""
             THEN Raise(w, 500, "Internal Server Error", op)
             ELSE Goto(w, "history", op, [loc[w] EXCEPT !.ctx = c.ctx])
    /\ UNCHANGED <<Time, Table, Cache, Config, Aside, Bursts>>

\* turns = fetch_last_turns(req.user_id, HISTORY_MAX_TURNS * 2) and the
\* construction of messages
FetchHistory(w) ==
    /\ pc[w] = "history"
    /\ Quiet(w)
    /\ LET turns == FetchLastTurns(chat_history, loc[w].user_id,
                                   HISTORY_MAX_TURNS * 2)
       IN  Goto(w, "iam_check", <<Op("fetch")>>,
                [loc[w] EXCEPT !.turns = turns,
                               !.messages = BuildMessages(loc[w].ctx, turns, loc[w].q)])
    /\ UNCHANGED <<Time, Table, Cache, Config, Aside, Bursts>>

(***************************************************************************)
(* _get_iam_token, called by ask.                                          *)
(***************************************************************************)
\* the workers between a failed validity test and the end of their refresh
Refreshing == {v \in Workers : pc[v] \in {"iam_refresh", "iam_set_token", "iam_set_exp"}}

\* _get_iam_token returns token to ask
TokenReturned(w, token) ==
    tokOut' = [tokOut EXCEPT ![w] = [state |-> "token", token |-> token,
                                      status |-> 0, detail |-> ""]]

\* _get_iam_token raises HTTPException(status, detail), or an exception that
\* is no HTTPException leaves it (status 500)
TokenRaised(w, status, detail) ==
    tokOut' = [tokOut EXCEPT ![w] = [state |-> "error", token |-> Empty,
                                      status |-> status, detail |-> detail]]

\* the validity test without the safety margin
IamCheckNoMargin(w) ==
    /\ pc[w] = "iam_check"
    /\ Quiet(w)
    /\ IF IAM_TOKEN # Empty /\ clock < IAM_EXP
       THEN /\ TokenReturned(w, IAM_TOKEN)
            /\ Goto(w, "llm", <<Call("iam", "cached")>>, loc[w])
            /\ UNCHANGED <<grp, exchanges>>
       ELSE /\ Goto(w, "iam_refresh", <<Call("iam", "refresh")>>,
                    [loc[w] EXCEPT !.now = clock])
            /\ IF Refreshing # {}
               THEN /\ grp' = [grp EXCEPT ![w] = grp[CHOOSE v \in Refreshing : TRUE]]
                    /\ UNCHANGED exchanges
               ELSE /\ grp' = [grp EXCEPT ![w] = Len(exchanges) + 1]
                    /\ exchanges' = Append(exchanges, 0)
            /\ UNCHANGED tokOut
    /\ UNCHANGED <<Time, Table, Cache, Config, Aside>>

\* now = int(time.time()) and the validity test under _IAM_LOCK
IamCheck(w) ==
    /\ pc[w] = "iam_check"
    /\ Quiet(w)
    /\ IF IAM_TOKEN # Empty /\ clock < IAM_EXP - IAM_MARGIN
       THEN /\ TokenReturned(w, IAM_TOKEN)
            /\ Goto(w, "llm", <<Call("iam", "cached")>>, loc[w])
            /\ UNCHANGED <<grp, exchanges>>
       ELSE /\ Goto(w, "iam_refresh", <<Call("iam", "refresh")>>,
                    [loc[w] EXCEPT !.now = clock])
            /\ IF Refreshing # {}
               THEN /\ grp' = [grp EXCEPT ![w] = grp[CHOOSE v \in Refreshing : TRUE]]
                    /\ UNCHANGED exchanges
               ELSE /\ grp' = [grp EXCEPT ![w] = Len(exchanges) + 1]
                    /\ exchanges' = Append(exchanges, 0)
            /\ UNCHANGED tokOut
    /\ UNCHANGED <<Time, Table, Cache, Config, Aside>>

\* a refresh that empties the cache when it fails
IamRefreshClearing(w) ==
    /\ pc[w] = "iam_refresh"
    /\ Quiet(w)
    /\ IF ~env_ok
       THEN /\ TokenRaised(w, 500, "Missing FOLDER_ID/SERVICE_ACCOUNT_ID/KEY_ID/PRIVATE_KEY")
            /\ Raise(w, 500, "Missing FOLDER_ID/SERVICE_ACCOUNT_ID/KEY_ID/PRIVATE_KEY",
                     <<Call("env", "failed")>>)
            /\ UNCHANGED exchanges
       ELSE IF ~key_ok
       THEN /\ TokenRaised(w, 500, "jwt signing error")
            /\ Raise(w, 500, "jwt signing error", <<Call("sign", "failed")>>)
            /\ UNCHANGED exchanges
       ELSE /\ exchanges' = [exchanges EXCEPT ![grp[w]] = @ + 1]
            /\ \E r \in IamResults :
                 \E rs \in (IF IamFailure(r) = "" THEN {<<>>}
                            ELSE Consumed(IamBodies, r)) :
                 LET exc == IamFailure(r)
                     op == <<Sent("issuer", Outcome(r), rs)>>
                 IN  IF exc = ""
                     THEN /\ Goto(w, "iam_set_token", op,
                                  [loc[w] EXCEPT !.new_token = r.body.val])
                          /\ UNCHANGED tokOut
                     ELSE IF exc \in {"UnboundLocalError", "AttributeError"}
                     THEN /\ TokenRaised(w, 500, "Internal Server Error")
                          /\ Raise(w, 500, "Internal Server Error", op)
                     ELSE /\ TokenRaised(w, 502, "IAM error")
                          /\ Raise(w, 502, "IAM error", op)
    /\ IF pc'[w] = "done"
       THEN IAM_TOKEN' = Empty /\ IAM_EXP' = 0 /\ UNCHANGED by
       ELSE UNCHANGED Cache
    /\ UNCHANGED <<Time, Table, Config, Aside, grp>>

\* the refresh: the environment test, jwt.encode and the post to IAM_URL (the
\* record kept in full holds the statuses seen by a post that failed)
IamRefresh(w) ==
    /\ pc[w] = "iam_refresh"
    /\ Quiet(w)
    /\ IF ~env_ok
       THEN /\ TokenRaised(w, 500, "Missing FOLDER_ID/SERVICE_ACCOUNT_ID/KEY_ID/PRIVATE_KEY")
            /\ Raise(w, 500, "Missing FOLDER_ID/SERVICE_ACCOUNT_ID/KEY_ID/PRIVATE_KEY",
                     <<Call("env", "failed")>>)
            /\ UNCHANGED exchanges
       ELSE IF ~key_ok
       THEN /\ TokenRaised(w, 500, "jwt signing error")
            /\ Raise(w, 500, "jwt signing error", <<Call("sign", "failed")>>)
            /\ UNCHANGED exchanges
       ELSE /\ exchanges' = [exchanges EXCEPT ![grp[w]] = @ + 1]
            /\ \E r \in IamResults :
                 \E rs \in (IF IamFailure(r) = "" THEN {<<>>}
                            ELSE Consumed(IamBodies, r)) :
                 LET exc == IamFailure(r)
                     op == <<Sent("issuer", Outcome(r), rs)>>
                 IN  IF exc = ""
                     THEN /\ Goto(w, "iam_set_token", op,
                                  [loc[w] EXCEPT !.new_token = r.body.val])
                          /\ UNCHANGED tokOut
                     ELSE IF exc \in {"UnboundLocalError", "AttributeError"}
                     THEN /\ TokenRaised(w, 500, "Internal Server Error")
                          /\ Raise(w, 500, "Internal Server Error", op)
                     ELSE /\ TokenRaised(w, 502, "IAM error")
                          /\ Raise(w, 502, "IAM error", op)
    /\ UNCHANGED <<Time, Table, Cache, Config, Aside, grp>>

\* _IAM_TOKEN = token
IamSetToken(w) ==
    /\ pc[w] = "iam_set_token"
    /\ Quiet(w)
    /\ IAM_TOKEN' = loc[w].new_token
    /\ by' = [by EXCEPT !.token = w]
    /\ Goto(w, "iam_set_exp", <<>>, loc[w])
    /\ UNCHANGED <<Time, Table, IAM_EXP, Config, Aside, Bursts>>

\* _IAM_EXP = now + 3500; return _IAM_TOKEN
IamSetExp(w) ==
    /\ pc[w] = "iam_set_exp"
    /\ Quiet(w)
    /\ IAM_EXP' = loc[w].now + IAM_TTL
    /\ by' = [by EXCEPT !.exp = w]
    /\ TokenReturned(w, IAM_TOKEN)
    /\ Goto(w, "llm", <<>>, loc[w])
    /\ UNCHANGED <<Time, Table, IAM_TOKEN, Config, Aside, grp, exchanges>>

(***************************************************************************)
(* The completion call of ask.                                             *)
(***************************************************************************)
\* the completion call with a stand-in answer when the text is not there
LlmCallStandIn(w) ==
    /\ pc[w] = "llm"
    /\ Quiet(w)
    /\ \E r \in LlmResults : \E rs \in Consumed(LlmBodies, r) :
         LET exc == LlmFailure(r)
             op == <<About(Sent("llm", Outcome(r), rs),
                           loc[w].messages[Len(loc[w].messages)].text)>>
         IN  IF exc = ""
             THEN Goto(w, "persist_assistant", op, [loc[w] EXCEPT !.ans = r.body.val])
             ELSE IF exc = "KeyError: empty text"
             THEN Goto(w, "persist_assistant", op,
                       [loc[w] EXCEPT !.ans = <<Run("?", 1)>>])
             ELSE IF exc \in {"UnboundLocalError", "AttributeError"}
             THEN Raise(w, 500, "Internal Server Error", op)
             ELSE Raise(w, 502, LlmDetail(r), op)
    /\ UNCHANGED <<Time, Table, Cache, Config, Aside, Bursts>>

\* the post to LLM_URL and the reading of its answer
LlmCall(w) ==
    /\ pc[w] = "llm"
    /\ Quiet(w)
    /\ \E r \in LlmResults : \E rs \in Consumed(LlmBodies, r) :
         LET exc == LlmFailure(r)
             op == <<About(Sent("llm", Outcome(r), rs),
                           loc[w].messages[Len(loc[w].messages)].text)>>
         IN  IF exc = ""
             THEN Goto(w, "persist_assistant", op, [loc[w] EXCEPT !.ans = r.body.val])
             ELSE IF exc \in {"UnboundLocalError", "AttributeError"}
             THEN Raise(w, 500, "Internal Server Error", op)
             ELSE Raise(w, 502, LlmDetail(r), op)
    /\ UNCHANGED <<Time, Table, Cache, Config, Aside, Bursts>>

\* save_message(..., "assistant", ans); return AskResp(answer=ans)
PersistAssistant(w) ==
    /\ pc[w] = "persist_assistant"
    /\ Quiet(w)
    /\ chat_history' = SaveMessage(chat_history, nextId, loc[w].user_id,
                                   "assistant", loc[w].ans, clock)
    /\ inserted' = [inserted EXCEPT ![w] = @ \o NewRows(chat_history, chat_history')]
    /\ nextId' = nextId + 1
    /\ Return(w, loc[w].ans, <<Op("save_assistant")>>)
    /\ UNCHANGED <<Time, Cache, Config, Aside, Bursts>>

\* the response is sent; the record of the request is dropped
Finish(w) ==
    /\ pc[w] = "done"
    /\ pc' = [pc EXCEPT ![w] = "finished"]
    /\ resp' = [resp EXCEPT ![w] = NoResponse]
    /\ ops' = [ops EXCEPT ![w] = <<>>]
    /\ inserted' = [inserted EXCEPT ![w] = <<>>]
    /\ loc' = [loc EXCEPT ![w] = NoLocals]
    /\ UNCHANGED <<Time, chat_history, nextId, Cache, Config, Aside, Bursts>>

(***************************************************************************)
(* The clock.  A request lasts no longer than the timeouts of its calls    *)
(* (5, 10, 20, 10 and 30 seconds an attempt), which is short against every *)
(* jump but the first, so the clock advances between requests; its origin  *)
(* is the first request.                                                   *)
(***************************************************************************)
Tick ==
    /\ \A w \in Workers : pc[w] \in {"idle", "finished", "off"}
    /\ \E w \in Workers : pc[w] = "finished"
    /\ ticks < MaxTicks
    /\ ticks' = ticks + 1
    /\ \E d \in Jumps : clock' = clock + d
    /\ UNCHANGED <<Table, Cache, Config, Aside, Bursts, pc, loc, resp, ops>>

Next ==
    \/ \E w \in Workers : Ask(w)
    \/ \E w \in Workers : PersistUser(w)
    \/ \E w \in Workers : SecurityCheck(w)
    \/ \E w \in Workers : ModerationCheck(w)
    \/ \E w \in Workers : PersistBlocked(w)
    \/ \E w \in Workers : Retrieve(w)
    \/ \E w \in Workers : FetchHistory(w)
    \/ \E w \in Workers : IamCheck(w)
    \/ \E w \in Workers : IamRefresh(w)
    \/ \E w \in Workers : IamSetToken(w)
    \/ \E w \in Workers : IamSetExp(w)
    \/ \E w \in Workers : LlmCall(w)
    \/ \E w \in Workers : PersistAssistant(w)
    \/ \E w \in Workers : Finish(w)
    \/ Tick

Spec == Init /\ [][Next]_vars

\* A single request, served while no other runs, with its record kept in
\* full.
SoloInit ==
    /\ Start
    /\ OthersOff
    /\ pc = [w \in Workers |-> IF w = 1 THEN "idle" ELSE "finished"]
    /\ full = TRUE

SoloSpec == SoloInit /\ [][Next]_vars

(***************************************************************************)
(* The store functions called on their own, in any order and for any user, *)
(* as ask, GET /history and DELETE /history call them.                     *)
(***************************************************************************)
\* the users, and the limits fetch_last_turns is called with
StoreUsers == {"u1", "u2"}
Limits == {1, 2, HISTORY_MAX_TURNS * 2}

\* amounts by which the clock advances between two calls
Elapsed == {1, HISTORY_MAX_DAYS * SecondsPerDay}

Pipeline == <<Cache, Config, Bursts, pc, loc, resp, ops, inserted, full, gone>>

\* save_message(user_id, chat_id, role, content)
CallSaveMessage(u, role) ==
    /\ nextId <= MaxRows
    /\ chat_history' = SaveMessage(chat_history, nextId, u, role,
                                   <<Run("a", 1)>>, clock)
    /\ nextId' = nextId + 1
    /\ committed' = [committed EXCEPT ![u] = clock]
    /\ last' = [op |-> "append", user_id |-> u, lim |-> 0,
                before |-> chat_history, result |-> <<>>]
    /\ UNCHANGED <<Time, Pipeline>>

\* fetch_last_turns(user_id, limit_msgs)
CallFetchLastTurns(u, lim) ==
    /\ last' = [op |-> "fetch", user_id |-> u, lim |-> lim,
                before |-> chat_history,
                result |-> FetchLastTurns(chat_history, u, lim)]
    /\ UNCHANGED <<Time, chat_history, nextId, committed, Pipeline>>

\* DELETE /history
DeleteHistory(u) ==
    /\ chat_history' = DeleteRows(chat_history, u)
    /\ last' = [op |-> "forget", user_id |-> u, lim |-> 0,
                before |-> chat_history, result |-> <<>>]
    /\ UNCHANGED <<Time, nextId, committed, Pipeline>>

\* time passes between two calls
Elapse ==
    /\ ticks < MaxElapses
    /\ ticks' = ticks + 1
    /\ \E d \in Elapsed : clock' = clock + d
    /\ UNCHANGED <<chat_history, nextId, last, committed, Pipeline>>

StoreNext ==
    \/ \E u \in StoreUsers, role \in {"user", "assistant"} : CallSaveMessage(u, role)
    \/ \E u \in StoreUsers, lim \in Limits : CallFetchLastTurns(u, lim)
    \/ \E u \in StoreUsers : DeleteHistory(u)
    \/ Elapse

\* a fresh process with an empty table, configured
StoreInit == Init /\ env_ok /\ key_ok

StoreSpec == StoreInit /\ [][StoreNext]_vars

(***************************************************************************)
(* A single request whose client may close the connection while ask runs.  *)
(* ask is a plain def, run to its end on a worker thread; it takes the     *)
(* Request and never uses it, so nothing in it looks at the connection.    *)
(***************************************************************************)
\* the client of the request of worker w goes away
Disconnect(w) ==
    /\ pc[w] \notin {"idle", "done", "finished", "off"}
    /\ gone[w] = 0
    /\ gone' = [gone EXCEPT ![w] = Len(ops[w])]
    /\ UNCHANGED <<Time, Table, Cache, Config, Bursts, pc, loc, resp, ops,
                   full, last, committed>>

HangupInit ==
    /\ Start
    /\ OthersOff
    /\ pc = [w \in Workers |-> IF w = 1 THEN "idle" ELSE "finished"]
    /\ full = FALSE

HangupNext ==
    \/ Next
    \/ \E w \in Workers : Disconnect(w)

HangupSpec == HangupInit /\ [][HangupNext]_vars

(***************************************************************************)
(* _get_iam_token called on its own by every worker thread at once, as the *)
(* requests of a burst call it, and again by one of them later.             *)
(***************************************************************************)
\* the caller has its token and leaves
TokenUsed(w) ==
    /\ pc[w] = "llm"
    /\ pc' = [pc EXCEPT ![w] = "finished"]
    /\ ops' = [ops EXCEPT ![w] = <<>>]
    /\ loc' = [loc EXCEPT ![w] = NoLocals]
    /\ UNCHANGED <<Time, Table, Cache, Config, Aside, Bursts, resp>>

CacheInit ==
    /\ Start
    /\ OthersOff
    /\ pc = [w \in Workers |-> "iam_check"]
    /\ full = FALSE

\* once the callers have left, time passes and worker w calls again
CallAgain(w) ==
    /\ \A v \in Workers : pc[v] = "finished"
    /\ ticks < MaxTicks
    /\ ticks' = ticks + 1
    /\ \E d \in Jumps : clock' = clock + d
    /\ pc' = [pc EXCEPT ![w] = "iam_check"]
    /\ tokOut' = [tokOut EXCEPT ![w] = NoOutcome]
    /\ UNCHANGED <<Table, Cache, Config, Aside, grp, exchanges, loc, ops, resp>>

CacheNext ==
    \/ \E w \in Workers : CallAgain(w)
    \/ \E w \in Workers : IamCheck(w)
    \/ \E w \in Workers : IamRefresh(w)
    \/ \E w \in Workers : IamSetToken(w)
    \/ \E w \in Workers : IamSetExp(w)
    \/ \E w \in Workers : TokenUsed(w)
    \/ \E w \in Workers : Finish(w)

CacheSpec == CacheInit /\ [][CacheNext]_vars

(***************************************************************************)
(* A single /ask request with DELETE /history requests served by other     *)
(* threads while it runs.                                                  *)
(***************************************************************************)
ForgetInit ==
    /\ Start
    /\ OthersOff
    /\ pc = [w \in Workers |-> IF w = 1 THEN "idle" ELSE "finished"]
    /\ full = FALSE

ForgetNext ==
    \/ Next
    \/ \E u \in StoreUsers : DeleteHistory(u)

ForgetSpec == ForgetInit /\ [][ForgetNext]_vars

(***************************************************************************)
(* The other services are run on their own, the gateway being off.         *)
(***************************************************************************)
GatewayOff ==
    /\ Start
    /\ env_ok /\ key_ok
    /\ pc = [w \in Workers |-> "off"]
    /\ full = FALSE

Gateway == <<Time, Table, Cache, env_ok, key_ok, Bursts, pc, loc, resp, ops,
             full, last, committed, gone>>

(***************************************************************************)
(* The retrieval service (src/services/rag/app.py): the index build        *)
(* started by lifespan, and POST /reindex.                                 *)
(***************************************************************************)
\* the build threads that have not ended
Running == {i \in 1..Len(rag.builds) : rag.builds[i].pc # "ended"}

\* lifespan up to the yield: in faiss mode, under _build_lock, set _building
\* and start the thread of _reindex_internal unless a build is on
Lifespan ==
    /\ rag.up = "boot"
    /\ rag' = IF rag.mode = "faiss" /\ ~rag.building
              THEN [rag EXCEPT !.up = "serving", !.building = TRUE,
                               !.builds = Append(@, [pc |-> "load", ok |-> TRUE])]
              ELSE [rag EXCEPT !.up = "serving"]
    /\ UNCHANGED <<Gateway, bot, scam>>

\* docs = load_corpus_s3(), which raises when S3 fails or the corpus is empty
BuildLoad(i) ==
    /\ i \in 1..Len(rag.builds)
    /\ rag.builds[i].pc = "load"
    /\ \E ok \in BOOLEAN :
         rag' = [rag EXCEPT !.builds[i] =
                    [pc |-> IF ok THEN "store" ELSE "cleanup", ok |-> ok]]
    /\ UNCHANGED <<Gateway, bot, scam>>

\* _vs = build_store(docs), which may raise as well
BuildStore(i) ==
    /\ i \in 1..Len(rag.builds)
    /\ rag.builds[i].pc = "store"
    /\ \E ok \in BOOLEAN :
         rag' = IF ok
                THEN [rag EXCEPT !.vs = i, !.builds[i].pc = "cleanup"]
                ELSE [rag EXCEPT !.builds[i] = [pc |-> "cleanup", ok |-> FALSE]]
    /\ UNCHANGED <<Gateway, bot, scam>>

\* a build that leaves the flag set when it has failed
BuildCleanupLeavesFlag(i) ==
    /\ i \in 1..Len(rag.builds)
    /\ rag.builds[i].pc = "cleanup"
    /\ rag' = [rag EXCEPT !.builds[i].pc =
                  IF rag.builds[i].ok THEN "reset" ELSE "ended"]
    /\ UNCHANGED <<Gateway, bot, scam>>

\* finally: _cleanup_tmp()
BuildCleanup(i) ==
    /\ i \in 1..Len(rag.builds)
    /\ rag.builds[i].pc = "cleanup"
    /\ rag' = [rag EXCEPT !.builds[i].pc = "reset"]
    /\ UNCHANGED <<Gateway, bot, scam>>

\* finally: with _build_lock: _building = False
BuildReset(i) ==
    /\ i \in 1..Len(rag.builds)
    /\ rag.builds[i].pc = "reset"
    /\ rag.lock = 0
    /\ rag' = [rag EXCEPT !.building = FALSE, !.builds[i].pc = "ended"]
    /\ UNCHANGED <<Gateway, bot, scam>>

\* POST /reindex: the test of RAG_MODE
Reindex(c) ==
    /\ rag.up = "serving"
    /\ rag.req[c].pc = "idle"
    /\ rag.posts < MaxPosts
    /\ rag' = IF rag.mode # "faiss"
              THEN [rag EXCEPT !.posts = @ + 1,
                               !.req[c] = [NoReq EXCEPT !.pc = "done", !.status = 409,
                                   !.detail = "reindex is only available in 'faiss' mode"]]
              ELSE [rag EXCEPT !.posts = @ + 1, !.req[c].pc = "lock"]
    /\ UNCHANGED <<Gateway, bot, scam>>

\* with _build_lock:
ReindexLock(c) ==
    /\ rag.req[c].pc = "lock"
    /\ rag.lock = 0
    /\ rag' = [rag EXCEPT !.lock = c, !.req[c].pc = "test"]
    /\ UNCHANGED <<Gateway, bot, scam>>

\* if _building: reindex assigns _building and does not declare it global,
\* so the name is a local of reindex, unbound at this test: UnboundLocalError
\* leaves the with block (the lock is released) and the handler, status 500.
\* saw is the value the module's _building has at this moment.
ReindexTest(c) ==
    /\ rag.req[c].pc = "test"
    /\ rag' = [rag EXCEPT !.lock = 0,
                          !.req[c] = [pc |-> "done", saw |-> rag.building,
                                      status |-> 500,
                                      detail |-> "Internal Server Error",
                                      started |-> FALSE]]
    /\ UNCHANGED <<Gateway, bot, scam>>

\* the response is sent
ReindexDone(c) ==
    /\ rag.req[c].pc = "done"
    /\ rag' = [rag EXCEPT !.req[c] = NoReq]
    /\ UNCHANGED <<Gateway, bot, scam>>

RagInit ==
    /\ GatewayOff
    /\ \E mode \in {"faiss", "structured"} : rag = RagBoot(mode)
    /\ bot = NoBot
    /\ scam = NoScam

RagNext ==
    \/ Lifespan
    \/ \E i \in 1..MaxPosts + 1 : BuildLoad(i)
    \/ \E i \in 1..MaxPosts + 1 : BuildStore(i)
    \/ \E i \in 1..MaxPosts + 1 : BuildCleanup(i)
    \/ \E i \in 1..MaxPosts + 1 : BuildReset(i)
    \/ \E c \in RagClients : Reindex(c)
    \/ \E c \in RagClients : ReindexLock(c)
    \/ \E c \in RagClients : ReindexTest(c)
    \/ \E c \in RagClients : ReindexDone(c)

RagSpec == RagInit /\ [][RagNext]_vars

(***************************************************************************)
(* The Telegram adapter (src/services/telegram-bot/app.py): handle_text    *)
(* for one incoming message.                                               *)
(***************************************************************************)
\* MAX_QUESTION_CHARS of the adapter; the gateway has a constant of the same
\* name and value
BOT_MAX_QUESTION_CHARS == 8000
RETRIES == 1
\* the n of _chunks
ChunkSize == 4096

\* t[k:]
RECURSIVE Drop(_, _)
Drop(t, k) ==
    IF t = <<>> \/ k <= 0 THEN t
    ELSE IF Head(t).n <= k
         THEN Drop(Tail(t), k - Head(t).n)
         ELSE <<Run(Head(t).ch, Head(t).n - k)>> \o Tail(t)

\* list(_chunks(s, n))
RECURSIVE _chunks(_, _)
_chunks(s, n) ==
    IF TextLen(s) = 0 THEN <<>>
    ELSE <<Take(s, n)>> \o _chunks(Drop(s, n), n)

\* the text of the incoming message
BotMessages ==
    { <<>>,
      <<Run(" ", 2)>>,
      <<Run(" ", 1), Run("a", 1), Run(" ", 1)>>,
      <<Run("a", BOT_MAX_QUESTION_CHARS)>>,
      <<Run(" ", 1), Run("a", BOT_MAX_QUESTION_CHARS + 1)>> }

\* values of "answer" in a reply of the gateway
BotAnswers ==
    { Empty,
      <<Run("a", 1)>>,
      <<Run("a", ChunkSize)>>,
      <<Run("a", ChunkSize + 1)>>,
      <<Run("a", 2 * ChunkSize + 1)>> }

\* "упс, пустой ответ"
DefaultAnswer == <<Run("?", 17)>>

\* what one post to /ask can bring: no response (connection error, timeout),
\* a status that raise_for_status rejects, a 2xx body that is not JSON, a
\* JSON value that is not an object, an object without "answer", with
\* "answer": null, or with a text
GatewayReplies ==
    {[kind |-> k, null |-> FALSE, answer |-> Empty] :
        k \in {"error", "status", "notjson", "notobject", "noanswer"}}
    \cup {[kind |-> "object", null |-> TRUE, answer |-> Empty]}
    \cup {[kind |-> "object", null |-> FALSE, answer |-> a] : a \in BotAnswers}

\* whether the try block of _ask_gateway reaches its return
Returns(r) == r.kind \in {"noanswer", "object"}

\* r.json().get("answer", "упс, пустой ответ")
AnswerOf(r) == IF r.kind = "noanswer" THEN DefaultAnswer ELSE r.answer

\* a message comes; q = (update.message.text or "").strip(), cut to
\* MAX_QUESTION_CHARS
BotMessage ==
    /\ bot.pc = "wait"
    /\ \E text \in BotMessages :
         LET q == Strip(text) IN
         bot' = IF TextLen(q) = 0
                THEN [bot EXCEPT !.pc = "empty_reply"]
                ELSE [bot EXCEPT !.pc = "typing",
                                 !.q = IF TextLen(q) > BOT_MAX_QUESTION_CHARS
                                       THEN Take(q, BOT_MAX_QUESTION_CHARS) ELSE q]
    /\ UNCHANGED <<Gateway, rag, scam>>

\* reply_text("пустой запрос :(") and return; the call is outside the try
BotEmptyReply ==
    /\ bot.pc = "empty_reply"
    /\ \E ok \in BOOLEAN :
         bot' = [bot EXCEPT !.pc = "ended", !.raised = ~ok,
                            !.sent = IF ok THEN Append(@, [kind |-> "empty", text |-> Empty])
                                     ELSE @]
    /\ UNCHANGED <<Gateway, rag, scam>>

\* send_chat_action, the first statement of the try block
BotTyping ==
    /\ bot.pc = "typing"
    /\ \E ok \in BOOLEAN :
         bot' = [bot EXCEPT !.pc = IF ok THEN "post" ELSE "fail_reply"]
    /\ UNCHANGED <<Gateway, rag, scam>>

\* one pass of the loop of _ask_gateway up to the return or the except
\* clause; on return handle_text takes the chunks of the answer, and
\* len(None) raises TypeError inside the try block of handle_text
BotPost ==
    /\ bot.pc = "post"
    /\ \E r \in GatewayReplies :
         bot' = IF Returns(r)
                THEN [bot EXCEPT !.posts = @ + 1, !.oks = @ + 1, !.got = TRUE,
                                 !.null = r.null, !.ans = AnswerOf(r),
                                 !.left = IF r.null THEN <<>>
                                          ELSE _chunks(AnswerOf(r), ChunkSize),
                                 !.pc = IF r.null THEN "fail_reply" ELSE "chunks"]
                ELSE [bot EXCEPT !.posts = @ + 1, !.pc = "sleep"]
    /\ UNCHANGED <<Gateway, rag, scam>>

\* except: last_err = e, sleep, next pass; after the last pass raise last_err
BotSleep ==
    /\ bot.pc = "sleep"
    /\ bot' = [bot EXCEPT !.attempt = @ + 1,
                          !.pc = IF bot.attempt + 1 < RETRIES + 1
                                 THEN "post" ELSE "fail_reply"]
    /\ UNCHANGED <<Gateway, rag, scam>>

\* reply_text(part) for the next chunk
BotChunk ==
    /\ bot.pc = "chunks"
    /\ bot.left # <<>>
    /\ \E ok \in BOOLEAN :
         bot' = IF ok
                THEN [bot EXCEPT !.sent = Append(@, [kind |-> "part", text |-> Head(bot.left)]),
                                 !.left = Tail(@)]
                ELSE [bot EXCEPT !.pc = "fail_reply"]
    /\ UNCHANGED <<Gateway, rag, scam>>

\* the for loop is over and handle_text returns
BotReturn ==
    /\ bot.pc = "chunks"
    /\ bot.left = <<>>
    /\ bot' = [bot EXCEPT !.pc = "ended"]
    /\ UNCHANGED <<Gateway, rag, scam>>

\* except Exception: reply_text("не получилось, попробуй позже"); when this
\* call raises, the exception leaves handle_text
BotFailReply ==
    /\ bot.pc = "fail_reply"
    /\ \E ok \in BOOLEAN :
         bot' = [bot EXCEPT !.pc = "ended", !.raised = ~ok,
                            !.sent = IF ok THEN Append(@, [kind |-> "fail", text |-> Empty])
                                     ELSE @]
    /\ UNCHANGED <<Gateway, rag, scam>>

BotInit ==
    /\ GatewayOff
    /\ rag = NoRag
    /\ bot = BotWait
    /\ scam = NoScam

BotNext ==
    \/ BotMessage
    \/ BotEmptyReply
    \/ BotTyping
    \/ BotPost
    \/ BotSleep
    \/ BotChunk
    \/ BotReturn
    \/ BotFailReply

BotSpec == BotInit /\ [][BotNext]_vars

(***************************************************************************)
(* The standalone bot (src/scambot.py) with its model-based moderator      *)
(* (src/moderator.py).  Updates are handled one at a time.                 *)
(***************************************************************************)
\* lifetime recorded for a token by YandexGPTBot.get_iam_token
SCAM_TTL == 3500

\* the time between two events of the standalone bot
ScamJumps == {0, SCAM_TTL - 1, SCAM_TTL}

\* what the completion endpoint brings the moderator: no response, a status
\* raise_for_status rejects, a body that is not JSON, JSON of another shape,
\* or a text that begins with "ДА" or does not
ModReplies == {"error", "status", "notjson", "shape", "yes", "no"}

\* if self.iam_token and time.time() < self.token_expires
ScamTokenCached == scam.iam_token # 0 /\ scam.now < scam.token_expires

\* main: the trial get_iam_token, then init_moderator(FOLDER_ID, ...); a
\* failure of the exchange ends main before the bot polls
ScamMain ==
    /\ scam.pc = "boot"
    /\ \E ok \in BOOLEAN :
         scam' = IF ok
                 THEN [scam EXCEPT !.pc = "wait", !.iam_token = 1,
                                   !.token_expires = scam.now + SCAM_TTL,
                                   !.inited = TRUE]
                 ELSE [scam EXCEPT !.pc = "exited"]
    /\ UNCHANGED <<Gateway, rag, bot>>

\* handle_message up to the call of is_malicious_prompt: a blank message is
\* answered at once, and so is one that detect_injection flags
\* (security.py is not part of the sources: either result is possible)
ScamMessage ==
    /\ scam.pc \in {"wait", "handled"}
    /\ scam.msgs < MaxMessages
    /\ \E d \in ScamJumps, blank \in BOOLEAN, inj \in BOOLEAN :
         scam' = [scam EXCEPT
                    !.now = @ + d,
                    !.msgs = @ + 1,
                    !.det = IF blank THEN "none" ELSE IF inj THEN "true" ELSE "false",
                    !.mod = "none", !.verdict = "none", !.asked = FALSE,
                    !.reply = IF blank THEN "empty" ELSE IF inj THEN "ban" ELSE "none",
                    !.pc = IF blank \/ inj THEN "handled" ELSE "mod_init"]
    /\ UNCHANGED <<Gateway, rag, bot>>

\* is_malicious_prompt: if not FOLDER_ID or not GET_IAM_TOKEN_FUNC: return False
ModInit ==
    /\ scam.pc = "mod_init"
    /\ scam' = IF ~scam.folder \/ ~scam.inited
               THEN [scam EXCEPT !.mod = "uninit", !.verdict = "false", !.pc = "ask"]
               ELSE [scam EXCEPT !.pc = "mod_token"]
    /\ UNCHANGED <<Gateway, rag, bot>>

\* the headers of is_malicious_prompt: GET_IAM_TOKEN_FUNC() is called before
\* the try block.  get_iam_token returns the cached token or makes the
\* exchange, and re-raises when the exchange fails; the exception then leaves
\* is_malicious_prompt and handle_message (the call at line 158 is outside
\* its try block) and error_handler replies.
ModToken ==
    /\ scam.pc = "mod_token"
    /\ \/ /\ ScamTokenCached
          /\ scam' = [scam EXCEPT !.pc = "mod_post"]
       \/ /\ ~ScamTokenCached
          /\ \E ok \in BOOLEAN :
               scam' = IF ok
                       THEN [scam EXCEPT !.iam_token = @ + 1,
                                         !.token_expires = scam.now + SCAM_TTL,
                                         !.pc = "mod_post"]
                       ELSE [scam EXCEPT !.mod = "failed", !.verdict = "raised",
                                         !.reply = "error", !.pc = "handled"]
    /\ UNCHANGED <<Gateway, rag, bot>>

\* the try block of is_malicious_prompt: post, raise_for_status, json, the
\* text of the first alternative, answer.startswith("ДА"); except Exception:
\* return False.  Then handle_message replies "ban2" or goes on.
ModPost ==
    /\ scam.pc = "mod_post"
    /\ \E r \in ModReplies :
         scam' = IF r = "yes"
                 THEN [scam EXCEPT !.mod = "answered", !.verdict = "true",
                                   !.reply = "ban2", !.pc = "handled"]
                 ELSE [scam EXCEPT !.mod = IF r = "no" THEN "answered" ELSE "failed",
                                   !.verdict = "false", !.pc = "ask"]
    /\ UNCHANGED <<Gateway, rag, bot>>

\* the try block of handle_message: ask_gpt takes the token (re-raising when
\* the exchange fails), posts the completion request and returns the text or
\* raises; the reply is the text or the apology
ScamAsk ==
    /\ scam.pc = "ask"
    /\ \/ /\ ScamTokenCached
          /\ \E ok \in BOOLEAN :
               scam' = [scam EXCEPT !.asked = TRUE,
                                    !.reply = IF ok THEN "answer" ELSE "sorry",
                                    !.pc = "handled"]
       \/ /\ ~ScamTokenCached
          /\ \E tok \in BOOLEAN, ok \in BOOLEAN :
               scam' = IF tok
                       THEN [scam EXCEPT !.iam_token = @ + 1,
                                         !.token_expires = scam.now + SCAM_TTL,
                                         !.asked = TRUE,
                                         !.reply = IF ok THEN "answer" ELSE "sorry",
                                         !.pc = "handled"]
                       ELSE [scam EXCEPT !.reply = "sorry", !.pc = "handled"]
    /\ UNCHANGED <<Gateway, rag, bot>>

ScamInit ==
    /\ GatewayOff
    /\ rag = NoRag
    /\ bot = NoBot
    /\ \E folder \in BOOLEAN : scam = ScamBoot(folder)

ScamNext ==
    \/ ScamMain
    \/ ScamMessage
    \/ ModInit
    \/ ModToken
    \/ ModPost
    \/ ScamAsk

ScamSpec == ScamInit /\ [][ScamNext]_vars

(***************************************************************************)
(* Properties.                                                             *)
(***************************************************************************)
\* the request of worker w has performed operation o
Did(w, o) == \E i \in 1..Len(ops[w]) : ops[w][i].op = o

\* the request of worker w has called collaborator o, which did out
DidOut(w, o, out) ==
    \E i \in 1..Len(ops[w]) : ops[w][i].op = o /\ ops[w][i].out = out

\* the request of worker w has got the blocked answer
Blocked(w) == resp[w].status = 200 /\ resp[w].answer = blocked_ans

\* Authenticate or Complete has failed in the request of worker w
AuthFailed(w) ==
    \/ Did(w, "env") \/ Did(w, "sign")
    \/ \E out \in {"failed", "nonobject", "missing"} : DidOut(w, "issuer", out)

CompleteFailed(w) ==
    \E out \in {"failed", "nonobject", "missing"} : DidOut(w, "llm", out)

\* C1: a request whose detector call or moderator call has failed (transport
\* error, error status, body that does not parse) goes to the blocked answer
\* and to nothing else: it never calls the completion endpoint, and its
\* response is the fixed blocked message.
C1_ScreeningFailureBlocks ==
    \A w \in Workers :
        (DidOut(w, "detect", "failed") \/ DidOut(w, "moderate", "failed")) =>
            /\ pc[w] \in {"persist_blocked", "done"}
            /\ ~Did(w, "llm")
            /\ pc[w] = "done" => Blocked(w)

C1_Witness ==
    \E w \in Workers :
        /\ pc[w] = "done"
        /\ DidOut(w, "moderate", "failed")
        /\ Blocked(w)

\* C2: in a burst of concurrent _get_iam_token calls that all found no valid
\* token, the Issuer is posted to at most once.
C2_SingleExchange ==
    \A g \in 1..Len(exchanges) : exchanges[g] <= 1

\* C3: the _get_iam_token calls of one burst all end the same way, with the
\* same token or with the same error.
C3_SameOutcome ==
    \A w, v \in Workers :
        (/\ grp[w] # 0 /\ grp[w] = grp[v]
         /\ tokOut[w].state # "none" /\ tokOut[v].state # "none")
        => tokOut[w] = tokOut[v]

\* C4: a request one of whose checks has reported positive goes to the
\* blocked answer and to nothing else: no retriever, Issuer or completion
\* call; it answers 200 with the blocked message and has inserted one
\* assistant turn, whose content is that message.
C4_PositiveVerdictBlocks ==
    \A w \in Workers :
        (DidOut(w, "detect", "positive") \/ DidOut(w, "moderate", "positive")) =>
            /\ pc[w] \in {"persist_blocked", "done"}
            /\ ~Did(w, "rag") /\ ~Did(w, "iam") /\ ~Did(w, "issuer") /\ ~Did(w, "llm")
            /\ pc[w] = "done" =>
                 /\ Blocked(w)
                 /\ LET a == SelectSeq(inserted[w], LAMBDA x : x.role = "assistant")
                    IN  /\ Len(a) = 1
                        /\ a[1].content = blocked_ans
                        /\ a[1].user_id = loc[w].user_id

C4_Witness ==
    \E w \in Workers :
        /\ pc[w] = "done"
        /\ DidOut(w, "detect", "positive")
        /\ Blocked(w)
        /\ Len(inserted[w]) = 2

\* C5: a request answered 200 has inserted two rows, a user turn and then an
\* assistant turn, both of the user of the request.
C5_OneUserOneAssistantTurn ==
    \A w \in Workers :
        (pc[w] = "done" /\ resp[w].status = 200) =>
            /\ Len(inserted[w]) = 2
            /\ inserted[w][1].role = "user"
            /\ inserted[w][2].role = "assistant"
            /\ inserted[w][1].id < inserted[w][2].id
            /\ \A i \in 1..2 : inserted[w][i].user_id = loc[w].user_id

C5_Witness ==
    \E w \in Workers :
        /\ pc[w] = "done" /\ resp[w].status = 200 /\ Did(w, "llm")
        /\ Len(inserted[w]) = 2
        /\ \E i \in 1..Len(chat_history) : chat_history[i].user_id # loc[w].user_id

\* C6: a request in which Authenticate or Complete has failed ends with an
\* error response and has inserted its user turn and nothing else.
C6_FailureLeavesNoAssistantTurn ==
    \A w \in Workers :
        (AuthFailed(w) \/ CompleteFailed(w)) =>
            /\ pc[w] = "done"
            /\ resp[w].status >= 400
            /\ Len(inserted[w]) = 1
            /\ inserted[w][1].role = "user"

C6_Witness ==
    \E w \in Workers :
        /\ pc[w] = "done"
        /\ DidOut(w, "llm", "missing")
        /\ resp[w].status = 502
        /\ Len(inserted[w]) = 1

\* the collaborators
Collaborators == {"detect", "moderate", "rag", "issuer", "llm"}

\* C7: a request of a user whose question is the empty string or blank is
\* answered 400, having inserted no row and called no collaborator.
C7_EmptyQuestionIs400 ==
    \A w \in Workers :
        (/\ pc[w] = "done" /\ loc[w].user_id # ""
         /\ (DidOut(w, "ask", "empty") \/ DidOut(w, "ask", "blank")))
        => /\ resp[w].status = 400
           /\ inserted[w] = <<>>
           /\ \A c \in Collaborators : ~Did(w, c)

\* the stage an operation belongs to, by its place in the order Validate,
\* Truncate, PersistUserTurn, SafetyCheck, Retrieve+History, Authenticate,
\* Complete, PersistAssistantTurn, Respond (0: PersistBlockedAnswer)
Stage(o) ==
    CASE o \in {"ask", "validate"} -> 1
      [] o = "truncate" -> 2
      [] o = "save_user" -> 3
      [] o \in {"detect", "moderate"} -> 4
      [] o \in {"rag", "fetch"} -> 5
      [] o \in {"iam", "env", "sign", "issuer"} -> 6
      [] o = "llm" -> 7
      [] o = "save_assistant" -> 8
      [] o = "respond" -> 9
      [] o = "save_blocked" -> 0

\* operation b may follow operation a in the request of worker w
Follows(w, a, b) ==
    \/ Stage(b.op) = Stage(a.op) /\ Stage(a.op) \in {1, 4, 5, 6}
    \/ Stage(b.op) = Stage(a.op) + 1 /\ Stage(a.op) # 0
    \/ /\ Stage(a.op) = 4 /\ a.out \in {"failed", "positive"}
       /\ Stage(b.op) = 0
    \/ Stage(a.op) = 0 /\ Stage(b.op) = 9
    \/ Stage(b.op) = 9 /\ resp[w].status >= 400

\* C8: the operations of a request come stage by stage in the order Validate,
\* Truncate, PersistUserTurn, SafetyCheck, Retrieve+History, Authenticate,
\* Complete, PersistAssistantTurn, Respond; a stage is left out only after a
\* blocked verdict (PersistBlockedAnswer, Respond) or by the error response
\* that ends the request, and no operation is performed twice.
C8_StagesInOrder ==
    \A w \in Workers :
        LET s == ops[w]
        IN  /\ s # <<>> => s[1].op = "ask"
            /\ \A i \in 1..(Len(s) - 1) : Follows(w, s[i], s[i + 1])
            /\ \A i, j \in 1..Len(s) : s[i].op = s[j].op => i = j
            /\ \A i \in 1..Len(s) : s[i].op = "respond" => i = Len(s)

C8_Witness ==
    \E w \in Workers :
        /\ pc[w] = "done" /\ resp[w].status = 200
        /\ Did(w, "save_assistant")
        /\ Len(ops[w]) = 13

\* turn a is older than turn b
Older(a, b) == a.ts < b.ts \/ (a.ts = b.ts /\ a.id < b.id)

\* C9: the messages of the completion call are the system instruction, then
\* the context segment if there is a context, then the turns read from the
\* store, oldest first, then the question.
C9_PromptOrder ==
    \A w \in Workers :
        LET m == loc[w].messages
            t == loc[w].turns
            k == IF loc[w].ctx # Empty THEN 2 ELSE 1
        IN  m # <<>> =>
              /\ Len(m) = k + Len(t) + 1
              /\ m[1] = Msg("system", base_system)
              /\ loc[w].ctx # Empty => m[2] = Msg("system", ContextPrefix \o loc[w].ctx)
              /\ \A i \in 1..Len(t) :
                    m[k + i] = Msg(t[i].role, t[i].content)
              /\ \A i, j \in 1..Len(t) : i < j => Older(t[i], t[j])
              /\ m[Len(m)] = Msg("user", loc[w].q)

C9_Witness ==
    \E w \in Workers :
        /\ pc[w] = "llm"
        /\ loc[w].ctx # Empty
        /\ Len(loc[w].turns) >= 3
        /\ loc[w].turns[1].ts < loc[w].turns[3].ts

\* C10: a request whose retriever call has failed goes on with an empty
\* context: its messages hold no second system segment, and it ends only
\* after the completion call, or when Authenticate fails.
C10_RetrieverFailureIsEmptyContext ==
    \A w \in Workers :
        DidOut(w, "rag", "failed") =>
            /\ pc[w] # "done" => loc[w].ctx = Empty
            /\ \A i \in 2..Len(loc[w].messages) : loc[w].messages[i].role # "system"
            /\ pc[w] = "done" => (Did(w, "llm") \/ AuthFailed(w))

C10_Witness ==
    \E w \in Workers :
        /\ pc[w] = "done" /\ resp[w].status = 200
        /\ DidOut(w, "rag", "failed")
        /\ DidOut(w, "llm", "ok")

\* the retention window, in seconds
Window == HISTORY_MAX_DAYS * SecondsPerDay

\* the rows of the sequence s, as a set
RowsOf(s) == {s[i] : i \in 1..Len(s)}

\* C11: save_message for a user leaves every row of the other users in the
\* table.
C11_AppendKeepsOtherUsers ==
    last.op = "append" =>
        \A x \in RowsOf(last.before) :
            x.user_id # last.user_id => x \in RowsOf(chat_history)

\* C12: once save_message has committed for a user at time t, what
\* fetch_last_turns returns for that user holds no row with ts before
\* t - 7 days.
C12_FetchAfterAppendIsPruned ==
    (last.op = "fetch" /\ committed[last.user_id] >= 0) =>
        \A x \in RowsOf(last.result) :
            x.ts >= committed[last.user_id] - Window

C12_Witness ==
    /\ last.op = "fetch"
    /\ committed[last.user_id] > Window
    /\ \E x \in RowsOf(last.result) : x.ts = committed[last.user_id] - Window
    /\ nextId - 1 > Len(chat_history)

\* C13: fetch_last_turns(user_id, limit) returns rows of that user only, as
\* many as the user has but no more than limit, none older than a row of the
\* user it leaves out, the oldest first and in the order they were written.
C13_FetchRecent ==
    last.op = "fetch" =>
        LET res == last.result
            mine == {x \in RowsOf(last.before) : x.user_id = last.user_id}
        IN  /\ RowsOf(res) \subseteq mine
            /\ Len(res) = Min(last.lim, Cardinality(mine))
            /\ Cardinality(RowsOf(res)) = Len(res)
            /\ \A x \in mine \ RowsOf(res) : \A y \in RowsOf(res) : Older(x, y)
            /\ \A i, j \in 1..Len(res) :
                  i < j => (Older(res[i], res[j]) /\ res[i].id < res[j].id)

C13_Witness ==
    /\ last.op = "fetch"
    /\ Len(last.result) = 2 /\ last.lim = 2
    /\ last.result[1].ts < last.result[2].ts
    /\ last.result[1].role = "assistant"
    /\ \E x \in RowsOf(last.before) :
          x.user_id = last.user_id /\ x \notin RowsOf(last.result)

\* C14: DELETE /history for a user leaves no row of that user in the table,
\* whatever its age and role, and leaves the rows of the other users as they
\* were.
C14_ForgetRemovesAllOfUser ==
    last.op = "forget" =>
        /\ \A x \in RowsOf(chat_history) : x.user_id # last.user_id
        /\ chat_history
             = SelectSeq(last.before, LAMBDA x : x.user_id # last.user_id)
        /\ \A x \in RowsOf(last.before) :
              x.user_id # last.user_id => x \in RowsOf(chat_history)

C14_Witness ==
    /\ last.op = "forget"
    /\ \E x, y \in RowsOf(last.before) :
          /\ x.user_id = last.user_id /\ y.user_id = last.user_id
          /\ x.role = "user" /\ y.role = "assistant"
          /\ x.ts # y.ts
    /\ chat_history # <<>>

\* the screening calls
Screenings == {"detect", "moderate"}

\* C15: a request one of whose screening calls was answered 200 with a body
\* that lacks the verdict field or is no JSON object goes to the blocked
\* answer and to nothing else.
C15_MalformedVerdictBlocks ==
    \A w \in Workers :
        (\E o \in Screenings : DidOut(w, o, "missing") \/ DidOut(w, o, "nonobject")) =>
            /\ pc[w] \in {"persist_blocked", "done"}
            /\ pc[w] = "done" => Blocked(w)

\* the response of a blocked request
BlockedResponse == [status |-> 200, answer |-> blocked_ans, detail |-> ""]

\* C16: the response of a request that took the blocked branch is the same
\* status and the same text whichever check reported positive or failed.
C16_BlockedResponseTellsNothing ==
    \A w \in Workers :
        (pc[w] = "done" /\ Did(w, "save_blocked")) => resp[w] = BlockedResponse

C16_Witness ==
    \E w \in Workers :
        /\ pc[w] = "done"
        /\ DidOut(w, "detect", "negative")
        /\ DidOut(w, "moderate", "positive")
        /\ resp[w] = BlockedResponse

\* the statuses of the replies the completion call of worker w consumed
LlmSeen(w) ==
    LET i == CHOOSE i \in 1..Len(ops[w]) : ops[w][i].op = "llm"
    IN  ops[w][i].seen

\* a transient status: 429 or 5xx
TransientStatus(st) == st = 429 \/ st >= 500

\* C17: every attempt of the completion call but the last was answered with
\* status 429 or 5xx, there are no more than RetryTotal + 1 attempts, and an
\* attempt answered with a 4xx status other than 429 is the last.
C17_RetriedOnlyOnTransientStatus ==
    \A w \in Workers :
        Did(w, "llm") =>
            LET s == LlmSeen(w)
            IN  /\ Len(s) <= RetryTotal + 1
                /\ \A k \in 1..(Len(s) - 1) : TransientStatus(s[k])
                /\ \A k \in 1..Len(s) :
                      (s[k] >= 400 /\ s[k] < 500 /\ s[k] # 429) => k = Len(s)

\* C18: a request whose completion call was answered 500 and then 200 with
\* an answer ends 200 with that answer, saved as its assistant turn; a
\* request whose completion call was answered with a transient status on
\* every one of the RetryTotal + 1 attempts ends 502 with no assistant turn.
C18_RetryOutcome ==
    \A w \in Workers :
        (pc[w] = "done" /\ Did(w, "llm")) =>
            LET s == LlmSeen(w)
            IN  /\ (s = <<500, 200>> /\ DidOut(w, "llm", "ok")) =>
                      /\ resp[w].status = 200
                      /\ Len(inserted[w]) = 2
                      /\ inserted[w][2].role = "assistant"
                      /\ inserted[w][2].content = resp[w].answer
                /\ (Len(s) = RetryTotal + 1
                     /\ \A k \in 1..Len(s) : TransientStatus(s[k])) =>
                      /\ resp[w].status = 502
                      /\ Len(inserted[w]) = 1

\* C19: a request whose completion call was answered 200 without a text
\* (no alternatives, a text that is no string, an empty or blank text) ends
\* 502 with the detail of the failed check, no answer, and no assistant turn.
C19_NoTextIsFailure ==
    \A w \in Workers :
        DidOut(w, "llm", "missing") =>
            /\ pc[w] = "done"
            /\ resp[w].status = 502
            /\ resp[w].answer = Empty
            /\ resp[w].detail \in {"LLM error: alternatives missing",
                                   "LLM error: empty text"}
            /\ \A x \in RowsOf(inserted[w]) : x.role = "user"
            /\ \A x \in RowsOf(chat_history) : x.role = "user"

C19_Witness ==
    \E w \in Workers :
        /\ pc[w] = "done"
        /\ DidOut(w, "llm", "missing")
        /\ LlmSeen(w) = <<200>>
        /\ resp[w].detail = "LLM error: empty text"
        /\ Len(inserted[w]) = 1

\* C20: a request whose token refresh failed in the Signer, at the Issuer
\* (no answer, an error status, a body that does not parse) or for want of a
\* token in the Issuer's answer ends with status 502.
C20_CredentialFailureIs502 ==
    \A w \in Workers :
        (/\ pc[w] = "done"
         /\ (Did(w, "sign") \/ DidOut(w, "issuer", "failed")
                             \/ DidOut(w, "issuer", "missing")))
        => resp[w].status = 502

\* the statuses seen by a post() that obtained no response: the last attempt
\* got no reply, or every one of the RetryTotal + 1 attempts was answered
\* with a status that is retried
NoResponseObtained(s) ==
    /\ s # <<>>
    /\ \/ s[Len(s)] = 0
       \/ /\ Len(s) = RetryTotal + 1
          /\ s[Len(s)] \in status_forcelist \cup RETRY_AFTER_STATUS_CODES

\* C21: a request whose exchange with the Issuer or whose completion call
\* obtained no response (timeout, connection error, retries exhausted) ends
\* with status 502.
C21_NoResponseIs502 ==
    \A w \in Workers :
        pc[w] = "done" =>
            \A i \in 1..Len(ops[w]) :
                (/\ ops[w][i].op \in {"issuer", "llm"}
                 /\ NoResponseObtained(ops[w][i].seen))
                => resp[w].status = 502

\* C22: two requests that fail with 502, one in the token refresh and one in
\* the completion call, whatever the upstream status or exception, get the
\* same detail in the body of their error response.
C22_SameErrorMessage ==
    \A w, v \in Workers :
        (/\ v # w
         /\ pc[w] = "done"
         /\ resp[w].status = 502
         /\ tokOut[v].state = "error"
         /\ tokOut[v].status = 502)
        => resp[w].detail = tokOut[v].detail

\* the operations that call a collaborator or write a turn
Effects == Collaborators \cup {"save_user", "save_blocked", "save_assistant"}

\* C23: once the client of a request has gone away, the request starts no
\* further collaborator call and writes no further turn: of the operations
\* that follow in its record, only the one that was in flight may be one.
C23_NothingAfterDisconnect ==
    \A w \in Workers :
        (gone[w] > 0 /\ pc[w] # "finished") =>
            \A i \in (gone[w] + 2)..Len(ops[w]) : ops[w][i].op \notin Effects

\* C24: a request whose safety verdict is final (it is on the blocked branch,
\* or it has gone on to the retriever) has called both the detector and the
\* moderator.
C24_BothScreeningsInvoked ==
    \A w \in Workers :
        (pc[w] = "persist_blocked" \/ Did(w, "save_blocked") \/ Did(w, "rag")) =>
            Did(w, "detect") /\ Did(w, "moderate")

\* C25: when _get_iam_token returns the token of the cache, that token and
\* the expiry it was judged by were written by the same refresh.
C25_CacheNeverTorn ==
    [][\A w \in Workers :
          (pc[w] = "iam_check" /\ pc'[w] = "llm") => by.token = by.exp]_vars

\* the cache holds a token that is valid now
CacheValid == IAM_TOKEN # Empty /\ clock < IAM_EXP - IAM_MARGIN

\* C26: _get_iam_token returns the token of the cache, with no exchange with
\* the Issuer, exactly when a token is cached and the time is earlier than
\* its expiry minus IAM_MARGIN; in every other case it goes on to a refresh.
C26_CachedExactlyWhenValid ==
    [][\A w \in Workers :
          (pc[w] = "iam_check" /\ pc'[w] # "iam_check") =>
              IF CacheValid
              THEN /\ pc'[w] = "llm"
                   /\ tokOut'[w].state = "token"
                   /\ tokOut'[w].token = IAM_TOKEN
                   /\ ~Did(w, "issuer")'
                   /\ exchanges' = exchanges
              ELSE /\ pc'[w] = "iam_refresh"
                   /\ tokOut'[w].state = "none"]_vars

C26_Witness ==
    \E w \in Workers :
        /\ pc[w] = "llm"
        /\ DidOut(w, "iam", "cached")
        /\ tokOut[w].token = IAM_TOKEN
        /\ CacheValid
        /\ clock > 0

\* C30: the step in which a call of _get_iam_token fails (missing
\* environment, signing error, Issuer error, no token in the answer) leaves
\* _IAM_TOKEN and _IAM_EXP as they are, and the call has written neither
\* before: it comes to that step from the validity test.
C30_FailedRefreshKeepsCache ==
    [][\A w \in Workers :
          (tokOut[w].state # "error" /\ tokOut'[w].state = "error") =>
              /\ pc[w] = "iam_refresh"
              /\ IAM_TOKEN' = IAM_TOKEN
              /\ IAM_EXP' = IAM_EXP
              /\ by' = by]_vars

C30_Witness ==
    \E w \in Workers :
        /\ tokOut[w].state = "error"
        /\ tokOut[w].status = 502
        /\ CacheValid
        /\ by.token # w

\* no row of the set S is older than the cutoff of the append of another
InWindow(S) == \A x, y \in S : y.ts >= x.ts - Window

C28_QuestionOnlyInFinalSegment ==
    \A w \in Workers :
        LET m == loc[w].messages
        IN  m # <<>> =>
              /\ m[Len(m)] = Msg("user", loc[w].q)
              /\ RowsOf(loc[w].turns) \cap RowsOf(inserted[w]) = {}

\* the question the request of worker w came with
Question(w) == ops[w][1].arg

\* C29: a request of a user whose question, surrounding whitespace apart, is
\* longer than MAX_QUESTION_CHARS is not refused; the text cut to its first
\* MAX_QUESTION_CHARS characters is what the request saves as its user turn,
\* sends to the detector, the moderator and the retriever, and puts in the
\* final user segment of the completion call.
C29_LongQuestionIsCut ==
    \A w \in Workers :
        (/\ ops[w] # <<>> /\ loc[w].user_id # ""
         /\ TextLen(Strip(Question(w))) > MAX_QUESTION_CHARS) =>
            LET cut == Take(Strip(Question(w)), MAX_QUESTION_CHARS)
            IN  /\ TextLen(cut) = MAX_QUESTION_CHARS
                /\ Did(w, "truncate")
                /\ resp[w].status \notin {400, 422}
                /\ pc[w] # "persist_user" =>
                      /\ inserted[w] # <<>>
                      /\ inserted[w][1].role = "user"
                      /\ inserted[w][1].content = cut
                /\ \A i \in 1..Len(ops[w]) :
                      ops[w][i].op \in {"detect", "moderate", "rag", "llm"} =>
                          ops[w][i].arg = cut
                /\ loc[w].messages # <<>> =>
                      loc[w].messages[Len(loc[w].messages)] = Msg("user", cut)

C29_Witness ==
    \E w \in Workers :
        /\ pc[w] = "done"
        /\ Question(w) = <<Run(" ", 1), Run("a", MAX_QUESTION_CHARS + 1), Run(" ", 1)>>
        /\ \A o \in {"detect", "moderate", "rag", "llm"} : Did(w, o)
        /\ resp[w].status = 200
        /\ Len(inserted[w]) = 2

\* C31: once DELETE /history has completed for a user, the table holds no
\* turn of a request of that user that was accepted before it: a request
\* whose user turn was in the table when the rows were deleted leaves no turn
\* behind.
C31_ForgetLeavesNothingBehind ==
    \A w \in Workers :
        (/\ last.op = "forget"
         /\ loc[w].user_id = last.user_id
         /\ \E x \in RowsOf(inserted[w]) : x \in RowsOf(last.before))
        => RowsOf(inserted[w]) \cap RowsOf(chat_history) = {}

\* C32: in the retrieval service at most one index build runs at any time; a
\* build thread is started only in a step that holds the build lock, finds
\* _building false and sets it true; and _building is true exactly while a
\* build has not ended, so it is false again after a build that succeeded and
\* after one that failed, and no later POST /reindex is turned away with 409.
C32_OneBuildAtATime ==
    [][/\ Len(rag'.builds) > Len(rag.builds)
            => /\ Len(rag'.builds) = Len(rag.builds) + 1
               /\ rag.lock = 0
               /\ ~rag.building
               /\ rag'.building
       /\ Cardinality({i \in 1..Len(rag'.builds) : rag'.builds[i].pc # "ended"}) <= 1
       /\ rag'.building
            <=> \E i \in 1..Len(rag'.builds) : rag'.builds[i].pc # "ended"
       /\ \A c \in RagClients :
            (rag'.mode = "faiss" /\ rag'.req[c].pc = "done" /\ ~rag'.req[c].saw)
                => rag'.req[c].status # 409]_vars

\* a build has failed and ended, the flag is down, and a POST /reindex that
\* came after it has its answer
C32_Witness ==
    /\ rag.builds # <<>>
    /\ rag.builds[1] = [pc |-> "ended", ok |-> FALSE]
    /\ ~rag.building
    /\ \E c \in RagClients : rag.req[c].pc = "done" /\ ~rag.req[c].saw

\* C33: POST /reindex in faiss mode answers 409 'already building' and starts
\* nothing when a build is in progress, and otherwise sets the building flag,
\* starts one background build and answers 200 with started = true.
C33_ReindexAnswers ==
    \A c \in RagClients :
        (rag.mode = "faiss" /\ rag.req[c].pc = "done")
            => IF rag.req[c].saw
               THEN rag.req[c].status = 409 /\ rag.req[c].detail = "already building"
               ELSE rag.req[c].status = 200 /\ rag.req[c].started

\* the total length of the parts of the answer sent to the user
RECURSIVE PartsLen(_)
PartsLen(s) == IF s = <<>> THEN 0 ELSE TextLen(Head(s).text) + PartsLen(Tail(s))

\* C34: for one incoming message with a question the Telegram adapter posts
\* at most RETRIES + 1 = 2 times to /ask, at most one of the posts succeeds,
\* and handle_text ends with exactly one outcome for the user: the whole
\* answer in parts of at most 4096 characters and nothing else, or the one
\* generic failure reply and nothing else.
C34_OneOutcome ==
    (bot.pc = "ended" /\ bot.q # Empty)
        => /\ bot.posts <= RETRIES + 1
           /\ bot.oks <= 1
           /\ ~bot.raised
           /\ \/ /\ bot.got
                 /\ bot.sent # <<>>
                 /\ \A i \in 1..Len(bot.sent) :
                        /\ bot.sent[i].kind = "part"
                        /\ TextLen(bot.sent[i].text) \in 1..ChunkSize
                 /\ PartsLen(bot.sent) = TextLen(bot.ans)
              \/ bot.sent = <<[kind |-> "fail", text |-> Empty]>>

\* C35: in the standalone bot is_malicious_prompt never raises; it returns
\* False whenever the moderator is not initialised or a step of its call has
\* failed, obtaining the token included; and the completion is requested only
\* after detect_injection and is_malicious_prompt have both returned False.
C35_ModeratorFailsOpen ==
    /\ scam.verdict # "raised"
    /\ scam.mod \in {"uninit", "failed"} => scam.verdict = "false"
    /\ scam.asked => scam.det = "false" /\ scam.verdict = "false"

====
